---- MODULE Spec2Model ----
(***************************************************************************)
(* A model of sqf::value (src/sqf-value/value.h): the tagged value type,   *)
(* its typed accessors, comparisons and arithmetic, the serializer         *)
(* to_string and the recursive-descent parser parse.                       *)
(*                                                                         *)
(* Text is a sequence of one-character strings.  A float is a pair         *)
(* <<n, d>> standing for n/d in lowest terms with d > 0; <<1, 0>>,         *)
(* <<-1, 0>> and <<0, 0>> stand for +inf, -inf and NaN.  Every operand the *)
(* model feeds to the arithmetic is a small integer and every finite       *)
(* result is a small dyadic rational, so binary32 represents all of them   *)
(* exactly and no rounding is lost by the exact arithmetic used here.      *)
(***************************************************************************)
EXTENDS Integers, Sequences, FiniteSets, TLC

VARIABLES
    v,       \* the sqf::value object the host program operates on
    res,     \* what the last operation on v was given and what it produced
    view,    \* the text handed to value::parse
    begin,   \* the parser's cursor, as an offset into view (0 = first char)
    over,    \* the bytes found so far behind the end of view, by offset
    stack,   \* one frame per active parse_array call: its `values` vector
    pc,      \* where the parser is
    retv,    \* the value the last parser call returned
    trace    \* what the parse did so far, for the properties of a whole run

vars == <<v, res, view, begin, over, stack, pc, retv, trace>>

-----------------------------------------------------------------------------
(* Bounds of the model *)

\* values the host program builds have at most this many nodes
MaxNodes == 3
\* strings the host program builds have at most this many characters
MaxStrLen == 1
\* texts of any characters handed to parse have at most this many characters
MaxTextLen == 3
\* at most this many bytes behind the end of a text are mapped memory
MaxOver == 1

-----------------------------------------------------------------------------
(* float *)

Abs(x) == IF x < 0 THEN -x ELSE x
Sign(x) == IF x < 0 THEN -1 ELSE IF x > 0 THEN 1 ELSE 0

RECURSIVE GCD(_, _)
GCD(a, b) == IF b = 0 THEN a ELSE GCD(b, a % b)

\* n/d in lowest terms with a positive denominator; d # 0
Ratio(n, d) ==
    LET g == GCD(Abs(n), Abs(d))
        s == IF d < 0 THEN -1 ELSE 1
    IN  <<(s * n) \div g, (s * d) \div g>>

FloatOf(n) == <<n, 1>>
NaN == <<0, 0>>
Infinity(sign) == <<sign, 0>>
IsNaN(x) == x = NaN
IsInf(x) == x[2] = 0 /\ x[1] # 0
IsFinite(x) == x[2] # 0

\* operator== on float: NaN equals nothing, itself included
FloatEq(x, y) == ~IsNaN(x) /\ ~IsNaN(y) /\ x = y

\* operator< on float: nothing is below or above NaN
FloatLess(x, y) ==
    /\ ~IsNaN(x) /\ ~IsNaN(y)
    /\ IF IsInf(x) /\ IsInf(y) THEN x[1] < y[1]
       ELSE x[1] * y[2] < y[1] * x[2]

FloatLessEq(x, y) == FloatLess(x, y) \/ FloatEq(x, y)

FloatNeg(x) == <<-x[1], x[2]>>

FloatAdd(x, y) ==
    CASE IsNaN(x) \/ IsNaN(y) -> NaN
      [] IsInf(x) /\ IsInf(y) -> IF x = y THEN x ELSE NaN
      [] IsInf(x) -> x
      [] IsInf(y) -> y
      [] OTHER -> Ratio(x[1] * y[2] + y[1] * x[2], x[2] * y[2])

FloatSub(x, y) == FloatAdd(x, FloatNeg(y))

FloatMul(x, y) ==
    CASE IsNaN(x) \/ IsNaN(y) -> NaN
      [] IsInf(x) \/ IsInf(y) ->
            IF x[1] = 0 \/ y[1] = 0 THEN NaN ELSE Infinity(Sign(x[1]) * Sign(y[1]))
      [] OTHER -> Ratio(x[1] * y[1], x[2] * y[2])

FloatDiv(x, y) ==
    CASE IsNaN(x) \/ IsNaN(y) -> NaN
      [] IsInf(x) /\ IsInf(y) -> NaN
      [] IsInf(x) -> Infinity(Sign(x[1]) * (IF y[1] < 0 THEN -1 ELSE 1))
      [] IsInf(y) -> FloatOf(0)
      [] y[1] = 0 -> IF x[1] = 0 THEN NaN ELSE Infinity(Sign(x[1]))
      [] OTHER -> Ratio(x[1] * y[2], x[2] * y[1])

-----------------------------------------------------------------------------
(* std::variant<std::monostate, std::vector<value>, std::string, bool, float> *)

VariantOf(k, b, f, s, vec) == [k |-> k, b |-> b, f |-> f, s |-> s, vec |-> vec]

monostate == VariantOf("monostate", FALSE, FloatOf(0), <<>>, <<>>)
of_bool(b) == VariantOf("bool", b, FloatOf(0), <<>>, <<>>)
of_float(f) == VariantOf("float", FALSE, f, <<>>, <<>>)
of_string(s) == VariantOf("string", FALSE, FloatOf(0), s, <<>>)
of_vector(vec) == VariantOf("vector", FALSE, FloatOf(0), <<>>, vec)

\* T{} for the four payload types
default_of(k) ==
    CASE k = "bool" -> of_bool(FALSE)
      [] k = "float" -> of_float(FloatOf(0))
      [] k = "string" -> of_string(<<>>)
      [] k = "vector" -> of_vector(<<>>)

\* What a call returns: a result, or the exception that left it.
Returned(r) == [exc |-> "none", ret |-> r]
Thrown(e) == [exc |-> e, ret |-> monostate]

\* std::get<T>(m_variant) throws unless the variant holds a T
std_get(variant, k) ==
    IF variant.k = k THEN Returned(variant) ELSE Thrown("bad_variant_access")

-----------------------------------------------------------------------------
(* sqf::value: the type tag and the payload *)

value_type == {"Nil", "Array", "Boolean", "Scalar", "String"}

\* the payload alternative each tag stands for
alternative_of(t) ==
    CASE t = "Nil" -> "monostate"
      [] t = "Array" -> "vector"
      [] t = "Boolean" -> "bool"
      [] t = "Scalar" -> "float"
      [] t = "String" -> "string"

value_of(t, variant) == [m_type |-> t, m_variant |-> variant]

value_nil == value_of("Nil", monostate)
value_float(f) == value_of("Scalar", of_float(f))
value_bool(b) == value_of("Boolean", of_bool(b))
value_string(s) == value_of("String", of_string(s))
value_vector(vec) == value_of("Array", of_vector(vec))

is_array(x) == x.m_type = "Array"
is_scalar(x) == x.m_type = "Scalar"
is_boolean(x) == x.m_type = "Boolean"
is_string(x) == x.m_type = "String"
is_nil(x) == x.m_type = "Nil"

-----------------------------------------------------------------------------
(* typed accessors *)

\* The non-const accessors: a mismatching tag makes them overwrite the payload
\* with T{}; they leave m_type alone.  `self` is the object afterwards.
as_mutable(x, t, k) ==
    LET y == IF x.m_type # t THEN [x EXCEPT !.m_variant = default_of(k)] ELSE x
    IN  [self |-> y, out |-> std_get(y.m_variant, k)]

as_float(x) == as_mutable(x, "Scalar", "float")
as_bool(x) == as_mutable(x, "Boolean", "bool")
as_string(x) == as_mutable(x, "String", "string")
\* private, and no member calls the non-const overload
as_array(x) == as_mutable(x, "Array", "vector")

as_float_const(x) ==
    IF x.m_type = "Scalar" THEN std_get(x.m_variant, "float")
    ELSE Returned(of_float(FloatOf(0)))
as_bool_const(x) ==
    IF x.m_type = "Boolean" THEN std_get(x.m_variant, "bool")
    ELSE Returned(of_bool(FALSE))
as_string_const(x) ==
    IF x.m_type = "String" THEN std_get(x.m_variant, "string")
    ELSE Returned(of_string(<<>>))
as_array_const(x) ==
    IF x.m_type = "Array" THEN std_get(x.m_variant, "vector")
    ELSE Returned(of_vector(<<>>))

\* explicit operator T() on a non-const object
convert_mutable(x, k) ==
    CASE k = "float" -> as_float(x)
      [] k = "bool" -> as_bool(x)
      [] k = "string" -> as_string(x)

\* explicit operator T() const, and sqf::get<T>, which calls it
convert_const(x, k) ==
    CASE k = "float" -> as_float_const(x)
      [] k = "bool" -> as_bool_const(x)
      [] k = "string" -> as_string_const(x)
      [] k = "vector" -> as_array_const(x)

get(x, k) == convert_const(x, k)

\* at(i) and operator[], i counted from 0: the outcomes the call can have.
\* std::get throws when the payload is no vector; operator[] of the vector
\* does not check i, and behind the last element it gives whatever is there.
at(x, i, garbage) ==
    LET a == std_get(x.m_variant, "vector")
    IN  IF a.exc # "none" THEN {a}
        ELSE IF i < Len(a.ret.vec) THEN {Returned(a.ret.vec[i + 1].m_variant)}
        ELSE {Thrown("fault")} \cup {Returned(y.m_variant) : y \in garbage}

-----------------------------------------------------------------------------
(* comparison *)

UpperCase == <<"A", "B", "C", "D", "E", "F", "G", "H", "I", "J", "K", "L", "M",
               "N", "O", "P", "Q", "R", "S", "T", "U", "V", "W", "X", "Y", "Z">>
LowerCase == <<"a", "b", "c", "d", "e", "f", "g", "h", "i", "j", "k", "l", "m",
               "n", "o", "p", "q", "r", "s", "t", "u", "v", "w", "x", "y", "z">>

tolower(c) ==
    IF \E i \in DOMAIN UpperCase : UpperCase[i] = c
    THEN LowerCase[CHOOSE i \in DOMAIN UpperCase : UpperCase[i] = c]
    ELSE c

same_bool(a, b) == a.b = b.b
same_float(a, b) == FloatEq(a.f, b.f)
same_string(a, b) == a.s = b.s
same_string_invariant(a, b) ==
    /\ Len(a.s) = Len(b.s)
    /\ \A i \in DOMAIN a.s : tolower(a.s[i]) = tolower(b.s[i])

\* the first of two calls that threw, else the comparison `how` of what they
\* returned
both(a, b, how) ==
    IF a.exc # "none" THEN a
    ELSE IF b.exc # "none" THEN b
    ELSE Returned(of_bool(
             CASE how = "bool" -> same_bool(a.ret, b.ret)
               [] how = "float" -> same_float(a.ret, b.ret)
               [] how = "string" -> same_string(a.ret, b.ret)
               [] how = "string_invariant" -> same_string_invariant(a.ret, b.ret)))

RECURSIVE equals(_, _), equal_from(_, _, _)

\* std::equal's loop over two vectors of one length, calling operator==
equal_from(a, b, i) ==
    IF i > Len(a) THEN Returned(of_bool(TRUE))
    ELSE LET r == equals(a[i], b[i])
         IN  IF r.exc # "none" THEN r
             ELSE IF ~r.ret.b THEN Returned(of_bool(FALSE))
             ELSE equal_from(a, b, i + 1)

\* std::equal(a.begin(), a.end(), b.begin(), b.end()) on vectors of value
std_equal(a, b) ==
    IF Len(a) # Len(b) THEN Returned(of_bool(FALSE)) ELSE equal_from(a, b, 1)

equal_vectors(a, b) ==
    IF a.exc # "none" THEN a
    ELSE IF b.exc # "none" THEN b
    ELSE std_equal(a.ret.vec, b.ret.vec)

equals(self, other) ==
    IF other.m_type # self.m_type THEN Returned(of_bool(FALSE))
    ELSE CASE self.m_type = "Nil" -> Returned(of_bool(TRUE))
           [] self.m_type = "Boolean" ->
                both(as_bool_const(self), as_bool_const(other), "bool")
           [] self.m_type = "Scalar" ->
                both(as_float_const(self), as_float_const(other), "float")
           [] self.m_type = "String" ->
                both(as_string_const(self), as_string_const(other), "string")
           [] self.m_type = "Array" ->
                equal_vectors(std_get(self.m_variant, "vector"),
                              std_get(other.m_variant, "vector"))

equals_invariant(self, other) ==
    IF other.m_type # self.m_type THEN Returned(of_bool(FALSE))
    ELSE CASE self.m_type = "Nil" -> Returned(of_bool(TRUE))
           [] self.m_type = "Boolean" ->
                both(as_bool_const(self), as_bool_const(other), "bool")
           [] self.m_type = "Scalar" ->
                both(as_float_const(self), as_float_const(other), "float")
           [] self.m_type = "String" ->
                both(std_get(self.m_variant, "string"),
                     std_get(other.m_variant, "string"), "string_invariant")
           [] self.m_type = "Array" ->
                equal_vectors(std_get(self.m_variant, "vector"),
                              std_get(other.m_variant, "vector"))

-----------------------------------------------------------------------------
(* arithmetic: value operator+(value other) const, and -, *, / *)

scalar_op(self, other, op) ==
    IF self.m_type # "Scalar" \/ other.m_type # "Scalar"
    THEN Returned(value_bool(FALSE))
    ELSE LET a == as_float_const(self)
             b == as_float_const(other)
         IN  IF a.exc # "none" THEN a
             ELSE IF b.exc # "none" THEN b
             ELSE Returned(value_float(
                      CASE op = "+" -> FloatAdd(a.ret.f, b.ret.f)
                        [] op = "-" -> FloatSub(a.ret.f, b.ret.f)
                        [] op = "*" -> FloatMul(a.ret.f, b.ret.f)
                        [] op = "/" -> FloatDiv(a.ret.f, b.ret.f)))

operator_plus(self, other) == scalar_op(self, other, "+")
operator_minus(self, other) == scalar_op(self, other, "-")
operator_times(self, other) == scalar_op(self, other, "*")
operator_divide(self, other) == scalar_op(self, other, "/")

-----------------------------------------------------------------------------
(* relational operators against a float; the double overloads cast the
   literal to float first, which leaves the literals used here as they are *)

Relations == {"<", "<=", ">", ">="}

\* each operator has the literal on the left of the comparison and the
\* payload on the right
relational(self, other, op) ==
    IF self.m_type # "Scalar" THEN Returned(of_bool(FALSE))
    ELSE LET a == as_float_const(self)
         IN  IF a.exc # "none" THEN a
             ELSE Returned(of_bool(
                      CASE op = "<=" -> FloatLessEq(other, a.ret.f)
                        [] op = "<" -> FloatLess(other, a.ret.f)
                        [] op = ">=" -> FloatLessEq(a.ret.f, other)
                        [] op = ">" -> FloatLess(a.ret.f, other)))

operator_less_equal(self, other) == relational(self, other, "<=")
operator_less(self, other) == relational(self, other, "<")
operator_greater_equal(self, other) == relational(self, other, ">=")
operator_greater(self, other) == relational(self, other, ">")

-----------------------------------------------------------------------------
(* to_string *)

DigitChar == <<"0", "1", "2", "3", "4", "5", "6", "7", "8", "9">>

RECURSIVE nat_text(_)
nat_text(n) ==
    IF n < 10 THEN <<DigitChar[n + 1]>>
    ELSE nat_text(n \div 10) \o <<DigitChar[(n % 10) + 1]>>

\* sstream << float, for the floats the model serializes: integers of fewer
\* than seven digits, the infinities and NaN
float_text(f) ==
    CASE IsNaN(f) -> <<"n", "a", "n">>
      [] IsInf(f) -> IF f[1] < 0 THEN <<"-", "i", "n", "f">> ELSE <<"i", "n", "f">>
      [] f[2] = 1 /\ f[1] < 0 -> <<"-">> \o nat_text(-f[1])
      [] f[2] = 1 /\ f[1] >= 0 -> nat_text(f[1])

\* an escaping that leaves the quotes single; C8_EscapeInvertsParse tells it
\* from double_quotes
double_quotes_single(s) == s

RECURSIVE double_quotes(_)
\* the string with every '"' followed by a second one
double_quotes(s) ==
    IF s = <<>> THEN <<>>
    ELSE (IF Head(s) = "\"" THEN <<"\"", "\"">> ELSE <<Head(s)>>)
         \o double_quotes(Tail(s))

RECURSIVE to_string(_, _), join_from(_, _, _)

\* the loop over the elements from index i on, a ',' before all but the first
join_from(vec, i, escape) ==
    IF i > Len(vec) THEN Returned(of_string(<<>>))
    ELSE LET e == to_string(vec[i], escape)
             rest == join_from(vec, i + 1, escape)
         IN  IF e.exc # "none" THEN e
             ELSE IF rest.exc # "none" THEN rest
             ELSE Returned(of_string((IF i > 1 THEN <<",">> ELSE <<>>)
                                     \o e.ret.s \o rest.ret.s))

to_string(self, escape) ==
    CASE self.m_type = "Nil" -> Returned(of_string(<<"n", "i", "l">>))
      [] self.m_type = "Array" ->
            LET a == std_get(self.m_variant, "vector")
                body == join_from(a.ret.vec, 1, escape)
            IN  IF a.exc # "none" THEN a
                ELSE IF body.exc # "none" THEN body
                ELSE Returned(of_string(<<"[">> \o body.ret.s \o <<"]">>))
      [] self.m_type = "Boolean" ->
            LET a == std_get(self.m_variant, "bool")
            IN  IF a.exc # "none" THEN a
                ELSE Returned(of_string(IF a.ret.b THEN <<"t", "r", "u", "e">>
                                        ELSE <<"f", "a", "l", "s", "e">>))
      [] self.m_type = "Scalar" ->
            LET a == std_get(self.m_variant, "float")
            IN  IF a.exc # "none" THEN a
                ELSE Returned(of_string(float_text(a.ret.f)))
      [] self.m_type = "String" ->
            LET a == std_get(self.m_variant, "string")
            IN  IF a.exc # "none" THEN a
                ELSE IF escape
                     THEN Returned(of_string(<<"\"">> \o double_quotes(a.ret.s)
                                             \o <<"\"">>))
                     ELSE Returned(of_string(a.ret.s))

-----------------------------------------------------------------------------
(* The parser.  `mem` is the text followed by the bytes that lie behind it  *)
(* in memory, `e` the offset of end; offsets count from 0.  A read at an    *)
(* offset mem does not hold is a fault.                                     *)

\* the byte that ends a C string
NUL == "NUL"

Quotes == {"\"", "'"}
BooleanStart == {"t", "f"}
ScalarStart == {"0", "1", "2", "3", "4", "5", "6", "7", "8", "9", "-", "+", "."}

Mapped(mem, p) == p < Len(mem)
Byte(mem, p) == mem[p + 1]

\* how a call of one of the parse functions ends: it returns val with the
\* cursor at b, or throws exc, or faults; oob: it read at or behind end
Ends(how, val, b, oob, exc) ==
    [how |-> how, val |-> val, begin |-> b, oob |-> oob, exc |-> exc]
Returns(val, b, oob) == Ends("return", val, b, oob, "none")
Throws(exc, b, oob) == Ends("throw", value_nil, b, oob, exc)
Faults(b) == Ends("fault", value_nil, b, TRUE, "none")

RECURSIVE find_end(_, _, _, _, _, _)
\* parse_string's first loop, entered with the iterator at copy
find_end(mem, copy, e, c, quotes, oob) ==
    IF copy = e THEN [fault |-> FALSE, copy |-> copy, quotes |-> quotes, oob |-> oob]
    ELSE IF ~Mapped(mem, copy)
    THEN [fault |-> TRUE, copy |-> copy, quotes |-> quotes, oob |-> TRUE]
    ELSE IF Byte(mem, copy) # c
    THEN find_end(mem, copy + 1, e, c, quotes, oob \/ copy >= e)
    ELSE IF copy + 1 = e
    THEN [fault |-> FALSE, copy |-> copy + 1, quotes |-> quotes, oob |-> oob \/ copy >= e]
    ELSE IF ~Mapped(mem, copy + 1)
    THEN [fault |-> TRUE, copy |-> copy + 1, quotes |-> quotes, oob |-> TRUE]
    ELSE IF Byte(mem, copy + 1) = c
    THEN find_end(mem, copy + 2, e, c, quotes + 1, oob \/ copy + 1 >= e)
    ELSE [fault |-> FALSE, copy |-> copy + 1, quotes |-> quotes,
          oob |-> oob \/ copy + 1 >= e]

RECURSIVE copy_body(_, _, _, _, _, _)
\* parse_string's second loop, entered with the cursor at b
copy_body(mem, b, e, c, target, oob) ==
    IF b = e THEN [fault |-> FALSE, begin |-> b, target |-> target, oob |-> oob]
    ELSE IF ~Mapped(mem, b)
    THEN [fault |-> TRUE, begin |-> b, target |-> target, oob |-> TRUE]
    ELSE IF Byte(mem, b) # c
    THEN copy_body(mem, b + 1, e, c, Append(target, Byte(mem, b)), oob \/ b >= e)
    ELSE IF b + 1 = e
    THEN [fault |-> FALSE, begin |-> b + 1, target |-> target, oob |-> oob \/ b >= e]
    ELSE IF ~Mapped(mem, b + 1)
    THEN [fault |-> TRUE, begin |-> b + 1, target |-> target, oob |-> TRUE]
    ELSE IF Byte(mem, b + 1) = c
    THEN copy_body(mem, b + 2, e, c, Append(target, c), oob \/ b + 1 >= e)
    ELSE [fault |-> FALSE, begin |-> b + 1, target |-> target,
          oob |-> oob \/ b + 1 >= e]

\* parse_string called with the cursor at b, on a mapped byte.  reserve() is
\* given len - quotes as a size_t: a negative difference is a size no string
\* can have, and reserve throws.
parse_string(mem, b, e) ==
    LET c == Byte(mem, b)
        f == find_end(mem, b + 1, e, c, 0, b >= e)
        len == f.copy - b - 2
        g == copy_body(mem, b + 1, e, c, <<>>, f.oob)
    IN  IF f.fault THEN Faults(f.copy)
        ELSE IF len - f.quotes < 0 THEN Throws("length_error", b, f.oob)
        ELSE IF g.fault THEN Faults(g.begin)
        ELSE Returns(value_string(g.target), g.begin, g.oob)

\* a parse_boolean that advances by 4 on either literal; C9_BooleanLeniency
\* tells it from parse_boolean
parse_boolean_by_four(mem, b, e) ==
    LET c == Byte(mem, b)
    IN  Returns(value_bool(c = "t" \/ c = "T"), b + 4, b >= e)

\* parse_boolean called with the cursor at b, on a mapped byte
parse_boolean(mem, b, e) ==
    LET c == Byte(mem, b)
    IN  IF c = "t" \/ c = "T"
        THEN Returns(value_bool(TRUE), b + 4, b >= e)
        ELSE Returns(value_bool(FALSE), b + 5, b >= e)

IsDigit(c) == \E i \in DOMAIN DigitChar : DigitChar[i] = c
DigitValue(c) == (CHOOSE i \in DOMAIN DigitChar : DigitChar[i] = c) - 1

RECURSIVE strlen(_, _)
\* the offset of the first NUL at or behind p, or Len(mem) when mem holds none
strlen(mem, p) ==
    IF ~Mapped(mem, p) \/ Byte(mem, p) = NUL THEN p ELSE strlen(mem, p + 1)

RECURSIVE digits(_, _)
\* how many digits s holds from index i on
digits(s, i) == IF i <= Len(s) /\ IsDigit(s[i]) THEN 1 + digits(s, i + 1) ELSE 0

RECURSIVE decimal(_, _, _)
\* the number the n digits of s from index i on write
decimal(s, i, n) ==
    IF n = 0 THEN 0 ELSE 10 * decimal(s, i, n - 1) + DigitValue(s[i + n - 1])

RECURSIVE pow10(_)
pow10(n) == IF n = 0 THEN 1 ELSE 10 * pow10(n - 1)

\* strtof on the C string s, for the texts of the model: an optional sign,
\* digits, an optional '.' and digits (no exponent, no hex, no "inf" or
\* "nan": no text here writes one behind a sign or a digit).
\* size = 0: no conversion could be performed.
strtof(s) ==
    LET signed == s # <<>> /\ s[1] \in {"-", "+"}
        i == IF signed THEN 2 ELSE 1
        n1 == digits(s, i)
        dot == i + n1 <= Len(s) /\ s[i + n1] = "."
        n2 == IF dot THEN digits(s, i + n1 + 1) ELSE 0
        whole == decimal(s, i, n1)
        frac == decimal(s, i + n1 + 1, n2)
        magnitude == Ratio(whole * pow10(n2) + frac, pow10(n2))
    IN  IF n1 + n2 = 0 THEN [size |-> 0, f |-> FloatOf(0)]
        ELSE [size |-> (i - 1) + n1 + (IF dot THEN 1 + n2 ELSE 0),
              f |-> IF signed /\ s[1] = "-" THEN FloatNeg(magnitude) ELSE magnitude]

\* parse_scalar called with the cursor at b.  substr throws behind the end of
\* the view; std::stof is handed a char pointer, so a std::string is built
\* from the bytes up to the first NUL, wherever that lies.
parse_scalar(mem, b, e) ==
    LET nul == strlen(mem, b)
        str == SubSeq(mem, b + 1, nul)
        r == strtof(str)
    IN  IF b > e THEN Throws("out_of_range", b, b >= e)
        ELSE IF ~Mapped(mem, nul) THEN Faults(b)
        ELSE IF r.size = 0 THEN Throws("invalid_argument", b, nul >= e)
        ELSE Returns(value_float(r.f), b + r.size, nul >= e)

-----------------------------------------------------------------------------
(* The values the host program builds with the constructors *)

StringsOver(chars, n) == UNION {[1..k -> chars] : k \in 0..n}

\* letters of the strings the host builds
HostChars == {"a", "A"}
\* numbers the host builds scalars from
HostFloats == {FloatOf(0), FloatOf(2)}

HostLeaves ==
    {value_nil} \cup {value_bool(b) : b \in BOOLEAN}
    \cup {value_float(f) : f \in HostFloats}
    \cup {value_string(s) : s \in StringsOver(HostChars, MaxStrLen)}

RECURSIVE ValuesOfSize(_, _), VectorsOfSize(_, _)

\* the values of exactly n nodes over the given leaves: a leaf, or an Array
\* built from a vector of values
ValuesOfSize(leaves, n) ==
    (IF n = 1 THEN leaves ELSE {})
    \cup {value_vector(vec) : vec \in VectorsOfSize(leaves, n - 1)}

VectorsOfSize(leaves, n) ==
    IF n = 0 THEN {<<>>}
    ELSE UNION {{<<x>> \o rest : x \in ValuesOfSize(leaves, k),
                                 rest \in VectorsOfSize(leaves, n - k)}
                : k \in 1..n}

HostValues == UNION {ValuesOfSize(HostLeaves, n) : n \in 1..MaxNodes}

-----------------------------------------------------------------------------
(* The host program operating on one value object *)

\* what the parse did last: the function that ran, the character it was
\* dispatched on and the cursor then; whether a read at or behind end has
\* happened, whether the bytes behind the text are known, what was thrown
Trace(fn, c, from, oob, mapped, exc) ==
    [fn |-> fn, c |-> c, from |-> from, oob |-> oob, mapped |-> mapped, exc |-> exc]

NoTrace == Trace("none", "", 0, FALSE, FALSE, "none")

Operation(op, pre, arg, k, esc, out) ==
    [op |-> op, pre |-> pre, arg |-> arg, k |-> k, esc |-> esc, out |-> out]

NoOperation == Operation("none", value_nil, value_nil, "", FALSE, Returned(monostate))

ParserUntouched == UNCHANGED <<view, begin, over, stack, pc, retv, trace>>

\* The host makes its next call once it is done with the last call's result.
Alive == res = NoOperation

\* the last call's result goes out of scope (an exception it threw was caught)
Discard ==
    /\ res # NoOperation
    /\ res' = NoOperation
    /\ UNCHANGED v
    /\ ParserUntouched

\* v = value(...): any of the constructors
Construct(x) ==
    /\ Alive
    /\ v' = x
    /\ res' = Operation("construct", v, x, "", FALSE, Returned(monostate))
    /\ ParserUntouched

\* float(v), bool(v), std::string(v) on the non-const object
ConvertMutable(k) ==
    /\ Alive
    /\ LET r == convert_mutable(v, k)
       IN  /\ v' = r.self
           /\ res' = Operation("convert_mutable", v, value_nil, k, FALSE, r.out)
    /\ ParserUntouched

\* sqf::get<T>(v), and the conversions on a const reference to v
ConvertConst(k) ==
    /\ Alive
    /\ res' = Operation("convert_const", v, value_nil, k, FALSE, get(v, k))
    /\ UNCHANGED v
    /\ ParserUntouched

Equals(w) ==
    /\ Alive
    /\ res' = Operation("equals", v, w, "", FALSE, equals(v, w))
    /\ UNCHANGED v
    /\ ParserUntouched

EqualsInvariant(w) ==
    /\ Alive
    /\ res' = Operation("equals_invariant", v, w, "", FALSE, equals_invariant(v, w))
    /\ UNCHANGED v
    /\ ParserUntouched

Plus(w) ==
    /\ Alive
    /\ res' = Operation("+", v, w, "", FALSE, operator_plus(v, w))
    /\ UNCHANGED v
    /\ ParserUntouched

Minus(w) ==
    /\ Alive
    /\ res' = Operation("-", v, w, "", FALSE, operator_minus(v, w))
    /\ UNCHANGED v
    /\ ParserUntouched

Times(w) ==
    /\ Alive
    /\ res' = Operation("*", v, w, "", FALSE, operator_times(v, w))
    /\ UNCHANGED v
    /\ ParserUntouched

Divide(w) ==
    /\ Alive
    /\ res' = Operation("/", v, w, "", FALSE, operator_divide(v, w))
    /\ UNCHANGED v
    /\ ParserUntouched

\* v <= y, v < y, v >= y, v > y with a float or double literal y
Relational(op, y) ==
    /\ Alive
    /\ res' = Operation("relational", v, value_float(y), op, FALSE,
                        CASE op = "<=" -> operator_less_equal(v, y)
                          [] op = "<" -> operator_less(v, y)
                          [] op = ">=" -> operator_greater_equal(v, y)
                          [] op = ">" -> operator_greater(v, y))
    /\ UNCHANGED v
    /\ ParserUntouched

\* v.at(i), v[i]: the host reads the element and writes nothing through it
At(i) ==
    /\ Alive
    /\ \E out \in at(v, i, HostLeaves) :
           res' = Operation("at", v, value_nil, "", FALSE, out)
    /\ UNCHANGED v
    /\ ParserUntouched

Serialize(escape) ==
    /\ Alive
    /\ res' = Operation("to_string", v, value_nil, "", escape, to_string(v, escape))
    /\ UNCHANGED v
    /\ ParserUntouched

Next ==
    \/ \E x \in HostValues : Construct(x)
    \/ \E k \in {"float", "bool", "string"} : ConvertMutable(k)
    \/ \E k \in {"float", "bool", "string", "vector"} : ConvertConst(k)
    \/ \E w \in HostValues : Equals(w)
    \/ \E w \in HostValues : EqualsInvariant(w)
    \/ \E w \in HostValues : Plus(w)
    \/ \E w \in HostValues : Minus(w)
    \/ \E w \in HostValues : Times(w)
    \/ \E w \in HostValues : Divide(w)
    \/ \E op \in Relations, y \in HostFloats : Relational(op, y)
    \/ \E i \in 0 .. MaxNodes - 1 : At(i)
    \/ \E escape \in BOOLEAN : Serialize(escape)
    \/ Discard

Init ==
    /\ v = value_nil
    /\ res = NoOperation
    /\ view = <<>>
    /\ begin = 0
    /\ over = <<>>
    /\ stack = <<>>
    /\ pc = "idle"
    /\ retv = value_nil
    /\ trace = NoTrace

Spec == Init /\ [][Next]_vars

-----------------------------------------------------------------------------
(* The texts handed to parse, and the values serialized for it *)

\* characters of the texts: one for each branch of the dispatch, ',' for
\* the characters no branch names
Alphabet == {"[", "]", "\"", "'", "t", "f", "1", "-", ","}
\* what may lie behind the end of a text
OverChars == Alphabet \cup {NUL}
Tails == UNION {[1..n -> OverChars] : n \in 0..MaxOver}

ExampleTexts ==
    { <<"t", "x", "y", "z">>,
      <<"'", "a", "'", "'", "b", "'", "]">>,
      <<"[", "1", ",", "2", ",", "[", "3", ",", "4", "]", "]">>,
      <<"[", "n", "i", "l", "]">> }

Texts == StringsOver(Alphabet, MaxTextLen) \cup ExampleTexts

\* characters of the strings that are serialized
TextChars == {"a", "\"", "]"}

TextLeaves ==
    {value_nil} \cup {value_bool(b) : b \in BOOLEAN}
    \cup {value_string(s) : s \in StringsOver(TextChars, MaxStrLen)}

TextValues == UNION {ValuesOfSize(TextLeaves, n) : n \in 1..MaxNodes}

-----------------------------------------------------------------------------
(* value::parse, step by step *)

ValueUntouched == UNCHANGED <<v, res>>

End == Len(view)

\* The bytes behind the text are found out by the first read that reaches
\* them, and stay what they were found to be.
TailsFor(reaches) == IF trace.mapped \/ ~reaches THEN {over} ELSE Tails

\* a call that has ended hands its outcome on
Outcome(fn, c, r, m) ==
    /\ begin' = r.begin
    /\ over' = IF r.oob THEN m ELSE over
    /\ trace' = Trace(fn, c, begin, trace.oob \/ r.oob, trace.mapped \/ r.oob, r.exc)
    /\ pc' = CASE r.how = "return" -> "return"
               [] r.how = "throw" -> "thrown"
               [] r.how = "fault" -> "fault"
    /\ retv' = r.val

\* parse(view): an empty view is Nil; else parse_ runs from the first char
Parse(text) ==
    /\ pc = "idle"
    /\ view' = text
    /\ begin' = 0
    /\ pc' = IF text = <<>> THEN "done" ELSE "parse_"
    /\ UNCHANGED <<over, stack, retv, trace>>
    /\ ValueUntouched

\* value::parse(x.to_string(escape))
ParseToString(x, escape) ==
    /\ pc = "idle"
    /\ res = NoOperation
    /\ LET out == to_string(x, escape)
       IN  /\ v' = x
           /\ res' = Operation("to_string", x, value_nil, "", escape, out)
           /\ out.exc = "none"
           /\ view' = out.ret.s
           /\ begin' = 0
           /\ pc' = IF out.ret.s = <<>> THEN "done" ELSE "parse_"
    /\ UNCHANGED <<over, stack, retv, trace>>

\* parse_ at parse_start reads *begin behind the mapped memory
DispatchFault ==
    /\ pc \in {"parse_", "parse_array"}
    /\ begin >= End
    /\ \E m \in TailsFor(TRUE) :
          /\ ~Mapped(view \o m, begin)
          /\ Outcome(pc, "", Faults(begin), m)
    /\ UNCHANGED <<view, stack>>
    /\ ValueUntouched

\* parse_: case '[': return parse_array(...), which skips the '['
DispatchArray ==
    /\ pc = "parse_"
    /\ \E m \in TailsFor(begin >= End) :
          /\ Mapped(view \o m, begin)
          /\ Byte(view \o m, begin) = "["
          /\ over' = IF begin >= End THEN m ELSE over
          /\ trace' = Trace("parse_array", "[", begin, trace.oob \/ begin >= End,
                            trace.mapped \/ begin >= End, "none")
    /\ begin' = begin + 1
    /\ stack' = Append(stack, <<>>)
    /\ pc' = "parse_array"
    /\ UNCHANGED <<view, retv>>
    /\ ValueUntouched

\* parse_: case '"', '\'': return parse_string(...)
DispatchString ==
    /\ pc = "parse_"
    /\ \E m \in TailsFor(begin >= End) :
          /\ Mapped(view \o m, begin)
          /\ Byte(view \o m, begin) \in Quotes
          /\ Outcome("parse_string", Byte(view \o m, begin),
                     parse_string(view \o m, begin, End), m)
    /\ UNCHANGED <<view, stack>>
    /\ ValueUntouched

\* parse_: case 't', 'f': return parse_boolean(...)
DispatchBoolean ==
    /\ pc = "parse_"
    /\ \E m \in TailsFor(begin >= End) :
          /\ Mapped(view \o m, begin)
          /\ Byte(view \o m, begin) \in BooleanStart
          /\ Outcome("parse_boolean", Byte(view \o m, begin),
                     parse_boolean(view \o m, begin, End), m)
    /\ UNCHANGED <<view, stack>>
    /\ ValueUntouched

\* parse_: case '0' ... '9', '-', '+', '.': return parse_scalar(...)
DispatchScalar ==
    /\ pc = "parse_"
    /\ \E m \in TailsFor(TRUE) :
          /\ Mapped(view \o m, begin)
          /\ Byte(view \o m, begin) \in ScalarStart
          /\ Outcome("parse_scalar", Byte(view \o m, begin),
                     parse_scalar(view \o m, begin, End), m)
    /\ UNCHANGED <<view, stack>>
    /\ ValueUntouched

\* parse_: default: ++begin; back to parse_start unless begin is end, and
\* then return {}
DispatchSkip ==
    /\ pc = "parse_"
    /\ \E m \in TailsFor(begin >= End) :
          /\ Mapped(view \o m, begin)
          /\ Byte(view \o m, begin) \notin {"["} \cup Quotes \cup BooleanStart \cup ScalarStart
          /\ over' = IF begin >= End THEN m ELSE over
          /\ trace' = Trace("parse_", Byte(view \o m, begin), begin,
                            trace.oob \/ begin >= End,
                            trace.mapped \/ begin >= End, "none")
    /\ begin' = begin + 1
    /\ IF begin + 1 # End
       THEN pc' = "parse_" /\ UNCHANGED retv
       ELSE pc' = "return" /\ retv' = value_nil
    /\ UNCHANGED <<view, stack>>
    /\ ValueUntouched

\* parse_array at parse_start: case ']': ++begin; return values
ArrayClose ==
    /\ pc = "parse_array"
    /\ \E m \in TailsFor(begin >= End) :
          /\ Mapped(view \o m, begin)
          /\ Byte(view \o m, begin) = "]"
          /\ over' = IF begin >= End THEN m ELSE over
          /\ trace' = Trace("parse_array", "]", begin, trace.oob \/ begin >= End,
                            trace.mapped \/ begin >= End, "none")
    /\ begin' = begin + 1
    /\ retv' = value_vector(stack[Len(stack)])
    /\ stack' = SubSeq(stack, 1, Len(stack) - 1)
    /\ pc' = "return"
    /\ UNCHANGED view
    /\ ValueUntouched

\* parse_array at parse_start: default: values.emplace_back(parse_(...))
\* calls parse_
ArrayElement ==
    /\ pc = "parse_array"
    /\ \E m \in TailsFor(begin >= End) :
          /\ Mapped(view \o m, begin)
          /\ Byte(view \o m, begin) # "]"
          /\ over' = IF begin >= End THEN m ELSE over
          /\ trace' = Trace("parse_array", Byte(view \o m, begin), begin,
                            trace.oob \/ begin >= End,
                            trace.mapped \/ begin >= End, "none")
    /\ pc' = "parse_"
    /\ UNCHANGED <<view, begin, stack, retv>>
    /\ ValueUntouched

\* parse_ returns into parse_array's emplace_back: the value is appended;
\* back to parse_start unless begin is end, and then return {}
ReturnToArray ==
    /\ pc = "return"
    /\ stack # <<>>
    /\ IF begin # End
       THEN /\ stack' = [stack EXCEPT ![Len(stack)] = Append(@, retv)]
            /\ pc' = "parse_array"
            /\ UNCHANGED retv
       ELSE /\ stack' = SubSeq(stack, 1, Len(stack) - 1)
            /\ pc' = "return"
            /\ retv' = value_nil
    /\ trace' = [trace EXCEPT !.fn = "emplace_back"]
    /\ UNCHANGED <<view, begin, over>>
    /\ ValueUntouched

\* parse_ returns into parse, which returns what it was given
ReturnToParse ==
    /\ pc = "return"
    /\ stack = <<>>
    /\ pc' = "done"
    /\ UNCHANGED <<view, begin, over, stack, retv, trace>>
    /\ ValueUntouched

NextParse ==
    \/ pc = "idle" /\ \E text \in Texts : Parse(text)
    \/ pc = "idle" /\ \E x \in TextValues, escape \in BOOLEAN :
                         ParseToString(x, escape)
    \/ DispatchFault
    \/ DispatchArray
    \/ DispatchString
    \/ DispatchBoolean
    \/ DispatchScalar
    \/ DispatchSkip
    \/ ArrayClose
    \/ ArrayElement
    \/ ReturnToArray
    \/ ReturnToParse

SpecParse == Init /\ [][NextParse]_vars

-----------------------------------------------------------------------------
(* Properties of the value object *)

\* the tag a payload alternative belongs to
tag_of(k) ==
    CASE k = "monostate" -> "Nil"
      [] k = "vector" -> "Array"
      [] k = "bool" -> "Boolean"
      [] k = "float" -> "Scalar"
      [] k = "string" -> "String"

RECURSIVE Intact(_)
\* the tag names the payload held, in the value and in every element below it
Intact(x) ==
    /\ alternative_of(x.m_type) = x.m_variant.k
    /\ \A i \in DOMAIN x.m_variant.vec : Intact(x.m_variant.vec[i])

Arithmetic == {"+", "-", "*", "/"}

\* C2: a mutable typed accessor called on a value of another variant returns
\* the requested type's default and turns the value into the default-valued
\* value of the requested variant: the predicate of the old variant is false
\* afterwards and the predicate of the requested variant is true.
C2_DestructiveCoercion ==
    (res.op = "convert_mutable" /\ res.pre.m_type # tag_of(res.k)) =>
        /\ res.out = Returned(default_of(res.k))
        /\ v.m_variant = default_of(res.k)
        /\ v.m_type = tag_of(res.k)
        /\ v.m_type # res.pre.m_type

\* What the accessor does do on a mismatch: it returns the default and leaves
\* the default as the payload, under the tag the value had before.
C2_PayloadOnlyCoercion ==
    (res.op = "convert_mutable" /\ res.pre.m_type # tag_of(res.k)) =>
        /\ res.out = Returned(default_of(res.k))
        /\ v.m_variant = default_of(res.k)
        /\ v.m_type = res.pre.m_type

\* C3: in every reachable state the tag the type predicates report is the
\* variant of the payload stored, so equals, equals_invariant and to_string
\* always read a payload of the variant they dispatched on.
C3_TagMatchesPayload ==
    /\ Intact(v)
    /\ res.op \in {"equals", "equals_invariant", "to_string"} =>
            res.out.exc # "bad_variant_access"

\* the strings a and b have one length and agree after case folding
SameFolded(a, b) ==
    /\ Len(a) = Len(b)
    /\ \A i \in DOMAIN a : tolower(a[i]) = tolower(b[i])

\* the vectors a and b have one length and equals holds of every pair of
\* elements at one index
PairwiseEquals(a, b) ==
    /\ Len(a) = Len(b)
    /\ \A i \in DOMAIN a : equals(a[i], b[i]) = Returned(of_bool(TRUE))

\* the claim about equals_invariant, of the call the state records
InvariantAsymmetry ==
    res.op = "equals_invariant" =>
        /\ (is_string(res.pre) /\ is_string(res.arg)) =>
              res.out = Returned(of_bool(SameFolded(res.pre.m_variant.s,
                                                    res.arg.m_variant.s)))
        /\ (is_array(res.pre) /\ is_array(res.arg)) =>
              res.out = Returned(of_bool(PairwiseEquals(res.pre.m_variant.vec,
                                                        res.arg.m_variant.vec)))

\* C4: equals_invariant on two Strings is true exactly when they have one
\* length and agree character by character after case folding; on two Arrays
\* it compares the elements with the strict equals.
C4_InvariantAsymmetry == InvariantAsymmetry

\* C4 where no mutable accessor has damaged an operand
C4_InvariantAsymmetryIntact ==
    (Intact(res.pre) /\ Intact(res.arg)) => InvariantAsymmetry

\* the claim about equals, of the call the state records
DeepEquality ==
    res.op = "equals" =>
        LET a == res.pre
            b == res.arg
        IN  /\ a.m_type # b.m_type => res.out = Returned(of_bool(FALSE))
            /\ (is_nil(a) /\ is_nil(b)) => res.out = Returned(of_bool(TRUE))
            /\ (is_boolean(a) /\ is_boolean(b)) =>
                  res.out = Returned(of_bool(a.m_variant.b = b.m_variant.b))
            /\ (is_scalar(a) /\ is_scalar(b)) =>
                  res.out = Returned(of_bool(FloatEq(a.m_variant.f, b.m_variant.f)))
            /\ (is_string(a) /\ is_string(b)) =>
                  res.out = Returned(of_bool(a.m_variant.s = b.m_variant.s))
            /\ (is_array(a) /\ is_array(b)) =>
                  res.out = Returned(of_bool(PairwiseEquals(a.m_variant.vec,
                                                            b.m_variant.vec)))

\* C5: equals is false on different variants, true on two Nils, compares
\* Booleans, Scalars and Strings by payload, and holds of two Arrays exactly
\* when they have one length and equals holds of the elements at every index.
C5_DeepEquality == DeepEquality

\* C5 where no mutable accessor has damaged an operand
C5_DeepEqualityIntact ==
    (Intact(res.pre) /\ Intact(res.arg)) => DeepEquality

\* what the claim says a op b is, for Scalars of payload x and y
Computed(op, x, y) ==
    CASE op = "+" -> FloatAdd(x, y)
      [] op = "-" -> FloatAdd(x, FloatNeg(y))
      [] op = "*" -> FloatMul(x, y)
      [] op = "/" -> FloatDiv(x, y)

\* the claim about the arithmetic, of the call the state records
ScalarOnlyArithmetic ==
    res.op \in Arithmetic =>
        /\ res.out.exc = "none"
        /\ IF is_scalar(res.pre) /\ is_scalar(res.arg)
           THEN res.out.ret = value_float(Computed(res.op, res.pre.m_variant.f,
                                                   res.arg.m_variant.f))
           ELSE res.out.ret = value_bool(FALSE)
        /\ v = res.pre

\* C6: +, -, *, / give the Scalar holding the arithmetic result when both
\* operands are Scalar and Boolean(false) otherwise; they never raise and
\* change neither operand.
C6_ScalarOnlyArithmetic == ScalarOnlyArithmetic

\* C6 where no mutable accessor has damaged an operand
C6_ScalarOnlyArithmeticIntact ==
    (Intact(res.pre) /\ Intact(res.arg)) => ScalarOnlyArithmetic

\* the claim about the const getters, of the call the state records
ConstSoftCast ==
    res.op = "convert_const" =>
        /\ res.out.exc = "none"
        /\ IF res.pre.m_type = tag_of(res.k)
           THEN res.out.ret = res.pre.m_variant
           ELSE res.out.ret = default_of(res.k)
        /\ v = res.pre

\* C7: on a const value each typed getter returns the stored payload when the
\* variant matches and the zero value of its type when it does not; it never
\* fails and never changes the value.
C7_ConstSoftCast == ConstSoftCast

\* C7 where no mutable accessor has damaged the value
C7_ConstSoftCastIntact == Intact(res.pre) => ConstSoftCast

\* x op y, the comparison as it is written
Written(op, x, y) ==
    CASE op = "<" -> FloatLess(x, y)
      [] op = "<=" -> FloatLessEq(x, y)
      [] op = ">" -> FloatLess(y, x)
      [] op = ">=" -> FloatLessEq(y, x)

\* the payload of the receiver and the literal of the last comparison
Receiver == res.pre.m_variant.f
Literal == res.arg.m_variant.f

\* C11: for a Scalar value v with payload x and a numeric literal y, v < y,
\* v <= y, v > y and v >= y return x < y, x <= y, x > y and x >= y; for a
\* receiver of any other variant each of them returns false.
C11_RelationalWrittenOrder ==
    res.op = "relational" =>
        res.out = Returned(of_bool(
            is_scalar(res.pre) /\ Written(res.k, Receiver, Literal)))

\* what the operators return on a Scalar whose tag names its payload: the
\* comparison with its sides exchanged, y op x
C11_RelationalExchanged ==
    (res.op = "relational" /\ is_scalar(res.pre) /\ Intact(res.pre)) =>
        res.out = Returned(of_bool(Written(res.k, Literal, Receiver)))

\* the part of C11 that holds: false for a receiver of any other variant,
\* and the receiver is left as it was
C11_RelationalOtherVariant ==
    (res.op = "relational" /\ ~is_scalar(res.pre)) =>
        res.out = Returned(of_bool(FALSE)) /\ v = res.pre

-----------------------------------------------------------------------------
(* Properties of the serializer and the parser *)

RECURSIVE HasNilElement(_)
\* some Array in x, at any depth, has a Nil among its elements
HasNilElement(x) ==
    \E i \in DOMAIN x.m_variant.vec :
        is_nil(x.m_variant.vec[i]) \/ HasNilElement(x.m_variant.vec[i])

\* the state holds the parse of x.to_string(true), x the value in res.pre
Reparsed == res.op = "to_string" /\ res.esc /\ pc \in {"done", "thrown", "fault"}

\* C1: for every value v built from Nil, Boolean, String and Array of these,
\* Nil elements and the empty Array included,
\* parse(v.to_string(true)).equals(v) is true.
C1_RoundTrip ==
    Reparsed => pc = "done" /\ equals(retv, res.pre) = Returned(of_bool(TRUE))

\* C1 for the values that have no Nil among the elements of an Array
C1_RoundTripWithoutNilElements ==
    (Reparsed /\ ~HasNilElement(res.pre)) =>
        pc = "done" /\ equals(retv, res.pre) = Returned(of_bool(TRUE))

RECURSIVE Doubled(_, _)
\* t with every d in it written twice
Doubled(t, d) ==
    IF t = <<>> THEN <<>>
    ELSE (IF Head(t) = d THEN <<d, d>> ELSE <<Head(t)>>) \o Doubled(Tail(t), d)

RECURSIVE Closing(_, _, _)
\* the index of the first d in t, from index i on, that is not one of a pair
\* of d's; 0 when there is none
Closing(t, i, d) ==
    IF i > Len(t) THEN 0
    ELSE IF t[i] # d THEN Closing(t, i + 1, d)
    ELSE IF i < Len(t) /\ t[i + 1] = d THEN Closing(t, i + 2, d)
    ELSE i

RECURSIVE Undoubled(_, _)
\* t with every pair of d's reduced to one d
Undoubled(t, d) ==
    IF t = <<>> THEN <<>>
    ELSE IF Len(t) >= 2 /\ t[1] = d /\ t[2] = d
    THEN <<d>> \o Undoubled(SubSeq(t, 3, Len(t)), d)
    ELSE <<t[1]>> \o Undoubled(Tail(t), d)

\* the text behind the delimiter parse_string was dispatched on
Opened == SubSeq(view, trace.from + 2, Len(view))

\* parse_string has just run on a delimiter of the text
StringParsed == trace.fn = "parse_string" /\ trace.from < Len(view)

\* C8: to_string(true) of a String s is s in double quotes with every '"' in
\* it doubled, and to_string(false) is s; parsing a text that opens with the
\* delimiter d gives the String of the body up to the first undoubled d, each
\* doubled d reduced to one, and leaves the cursor right behind that d; so
\* parsing what to_string(true) wrote gives the String back.
C8_EscapeInvertsParse ==
    /\ (res.op = "to_string" /\ is_string(res.pre)) =>
          res.out = Returned(of_string(
              IF res.esc
              THEN <<"\"">> \o Doubled(res.pre.m_variant.s, "\"") \o <<"\"">>
              ELSE res.pre.m_variant.s))
    /\ (StringParsed /\ Closing(Opened, 1, trace.c) > 0) =>
          /\ pc \in {"return", "done"}
          /\ retv = value_string(
                 Undoubled(SubSeq(Opened, 1, Closing(Opened, 1, trace.c) - 1),
                           trace.c))
          /\ begin = trace.from + 1 + Closing(Opened, 1, trace.c)
    /\ (Reparsed /\ is_string(res.pre)) =>
          pc = "done" /\ retv = res.pre /\ begin = Len(view)

\* a String holding a '"' was written, read back, and the cursor is at the end
C8_Witness ==
    /\ pc = "done"
    /\ res.op = "to_string" /\ res.esc
    /\ res.pre = value_string(<<"\"">>)
    /\ view = <<"\"", "\"", "\"", "\"">>
    /\ retv = res.pre

\* a text in single quotes with a doubled quote in it was parsed
C8_WitnessSingleQuote ==
    /\ pc = "done"
    /\ view = <<"'", "a", "'", "'", "b", "'", "]">>
    /\ retv = value_string(<<"a", "'", "b">>)
    /\ begin = 6

\* C9: dispatched on 't' the parser returns Boolean(true) and advances the
\* cursor by exactly 4, dispatched on 'f' it returns Boolean(false) and
\* advances by exactly 5, whatever the letters behind the first are.
C9_BooleanLeniency ==
    trace.fn = "parse_boolean" =>
        /\ pc \in {"return", "done"}
        /\ trace.c = "t" => retv = value_bool(TRUE) /\ begin = trace.from + 4
        /\ trace.c = "f" => retv = value_bool(FALSE) /\ begin = trace.from + 5

\* parse("txyz") is Boolean(true) with the cursor advanced by 4
C9_Witness ==
    /\ pc = "done"
    /\ view = <<"t", "x", "y", "z">>
    /\ retv = value_bool(TRUE)
    /\ begin = 4

\* a token that starts with 'f' and is no "false" was read as Boolean(false)
C9_WitnessFalse ==
    /\ trace.fn = "parse_boolean" /\ trace.c = "f"
    /\ view = <<"[", "f", "t">>
    /\ retv = value_bool(FALSE)
    /\ begin = 6

\* C10: for every text parse ends by returning a value, with nothing thrown;
\* the cursor never is behind the end of the text, and no character is read
\* at or behind the end.
C10_TruncatingParse ==
    /\ pc \notin {"thrown", "fault"}
    /\ begin <= Len(view)
    /\ ~trace.oob

\* the part of C10 that holds: the cursor only moves forward
C10_CursorOnlyForward == [][pc # "idle" => begin' >= begin]_vars

\* the part of C10 that holds: the parse of a text ends
C10_ParseEnds == pc \in {"idle", "done", "thrown", "fault"} \/ ENABLED NextParse

====
